---- MODULE Spec2Model ----
(***************************************************************************)
(* A model of pip_module_manager.py: one invocation of the command-line    *)
(* tool, from sys.argv to the process exit status.                         *)
(*                                                                         *)
(* Text is modelled at two levels.  A value the code inspects character    *)
(* by character (a command-line token, a package name, a path) is a        *)
(* sequence of one-character strings; text the code only passes on (what   *)
(* is written to a stream) is a TLA+ string, built with \o.  Join turns    *)
(* the first into the second.                                              *)
(*                                                                         *)
(* The environment is what the code reads: argv, the kind of file found at *)
(* the destination path, the records the metadata registry enumerates, and *)
(* what the pip subprocess returns (its exit code 0..255 and its two       *)
(* captured streams).                                                      *)
(***************************************************************************)
EXTENDS Integers, Sequences, FiniteSets, TLC

VARIABLES
    argv,        \* sys.argv[1:], fixed for the run
    destKind,    \* what the file system holds at the destination path
    pc,          \* the position of the single thread of control
    args,        \* the argparse namespace, NoArgs until parsed
    registry,    \* the records importlib.metadata enumerated, in order
    packages,    \* the list get_installed_packages returned
    result,      \* what subprocess.run observed of pip, NoResult until run
    exc,         \* the exception in flight, NoExc when none
    trace,       \* the run's observable events, in order
    exitStatus   \* the process exit status, -1 while running

vars == <<argv, destKind, pc, args, registry, packages, result, exc, trace,
          exitStatus>>

-----------------------------------------------------------------------------
(* Bounds of the model.                                                    *)

MaxArgs == 4
MaxRecords == 3

-----------------------------------------------------------------------------
(* Text.                                                                   *)

\* Python's None, kept apart from every text: a text is a sequence of
\* one-character strings, and this is not.
None == <<"None">>

RECURSIVE Join(_)
Join(cs) == IF cs = <<>> THEN "" ELSE Head(cs) \o Join(Tail(cs))

\* str(n) for an integer n.
Digit(d) == <<"0", "1", "2", "3", "4", "5", "6", "7", "8", "9">>[d + 1]

RECURSIVE NatStr(_)
NatStr(n) == IF n < 10 THEN Digit(n) ELSE NatStr(n \div 10) \o Digit(n % 10)

IntStr(n) == IF n < 0 THEN "-" \o NatStr(-n) ELSE NatStr(n)

\* ord(c) for the characters package names are drawn from.
Ord(c) ==
    CASE c = "A" -> 65 [] c = "B" -> 66 [] c = "a" -> 97 [] c = "b" -> 98

NameChars == {"A", "B", "a", "b"}

Chr(n) == CHOOSE c \in NameChars : Ord(c) = n

\* str.lower(), character by character.
LowerChar(c) == IF Ord(c) >= 65 /\ Ord(c) <= 90 THEN Chr(Ord(c) + 32) ELSE c

Lower(s) == [i \in 1..Len(s) |-> LowerChar(s[i])]

\* s < t for two str: the first differing code point decides, a proper
\* prefix is smaller.
RECURSIVE StrLess(_, _)
StrLess(s, t) ==
    IF t = <<>> THEN FALSE
    ELSE IF s = <<>> THEN TRUE
    ELSE IF Ord(Head(s)) # Ord(Head(t)) THEN Ord(Head(s)) < Ord(Head(t))
    ELSE StrLess(Tail(s), Tail(t))

\* bool(v) for v a str or None.
Truthy(v) == v # None /\ v # <<>>

\* Python's `a or b`.
PyOr(a, b) == IF Truthy(a) THEN a ELSE b

-----------------------------------------------------------------------------
(* The metadata reader: get_installed_packages and its printer.            *)

\* A distribution's metadata holds a header or does not; a header absent
\* reads as None, and a header may be present and empty.
Names == {<<"a">>, <<"B">>, <<"b">>, <<"a", "b">>}
Versions == {<<"1">>}
Records == [name : Names \cup {<<>>, None}, version : Versions \cup {<<>>, None}]

RecordSeqs == UNION {[1..n -> Records] : n \in 0..MaxRecords}

\* metadata.get(key): header names are matched without regard to case, so
\* "Name" and "name" read the same header.
HeaderGet(md, key) ==
    CASE key \in {"Name", "name"} -> md.name
      [] key \in {"Version", "version"} -> md.version

DistName(md) == PyOr(HeaderGet(md, "Name"), HeaderGet(md, "name"))

DistVersion(md) == PyOr(HeaderGet(md, "Version"), HeaderGet(md, "version"))

\* `if name and version`
Keep_NameOnly(md) == Truthy(DistName(md))

Keep(md) == Truthy(DistName(md)) /\ Truthy(DistVersion(md))

\* The loop of lines 58-63: the (name, version) pairs of the records kept,
\* in the order enumerated.
RECURSIVE Collect(_)
Collect(dists) ==
    IF dists = <<>> THEN <<>>
    ELSE (IF Keep(Head(dists))
          THEN <<<<DistName(Head(dists)), DistVersion(Head(dists))>>>>
          ELSE <<>>) \o Collect(Tail(dists))

\* key=lambda x: x[0].lower()
SortKey_NoLower(x) == x[1]

SortKey(x) == Lower(x[1])

\* sorted() is stable: an element goes after every element whose key is not
\* greater than its own.
RECURSIVE Insert_Unstable(_, _)
Insert_Unstable(x, s) ==
    IF s = <<>> THEN <<x>>
    ELSE IF ~StrLess(SortKey(Head(s)), SortKey(x)) THEN <<x>> \o s
    ELSE <<Head(s)>> \o Insert_Unstable(x, Tail(s))

RECURSIVE Insert(_, _)
Insert(x, s) ==
    IF s = <<>> THEN <<x>>
    ELSE IF StrLess(SortKey(x), SortKey(Head(s))) THEN <<x>> \o s
    ELSE <<Head(s)>> \o Insert(x, Tail(s))

RECURSIVE Sorted(_)
Sorted(s) ==
    IF s = <<>> THEN <<>>
    ELSE Insert(s[Len(s)], Sorted(SubSeq(s, 1, Len(s) - 1)))

get_installed_packages(dists) == Sorted(Collect(dists))

\* f"{name}=={version}"
FormatLine_Dash(p) == Join(p[1]) \o "-" \o Join(p[2])

FormatLine(p) == Join(p[1]) \o "==" \o Join(p[2])

\* print(x, file=stream) writes str(x) and a newline.
WriteLine(stream, text) == [kind |-> "write", stream |-> stream, text |-> text \o "\n"]

-----------------------------------------------------------------------------
(* The command line: tokens, paths and parse_arguments.                    *)

T_list == <<"l", "i", "s", "t">>
T_download == <<"d", "o", "w", "n", "l", "o", "a", "d">>
T_d == <<"-", "d">>
T_dir == <<"-", "-", "d", "i", "r">>
T_dest == <<"-", "-", "d", "e", "s", "t">>
T_requests ==
    <<"r", "e", "q", "u", "e", "s", "t", "s", "=", "=", "2", ".", "3", "1", ".", "0">>
T_tmp == <<"/", "t", "m", "p", "/", "d", "o", "w", "n", "l", "o", "a", "d", "s">>
T_out == <<".", "/", "o", "u", "t", "/">>

Tokens == {T_list, T_download, T_d, T_dir, T_requests, T_tmp, T_out}

Argvs == UNION {[1..n -> Tokens] : n \in 0..MaxArgs}

\* The components of a path text between its separators.
RECURSIVE SplitPath(_, _, _)
SplitPath(s, cur, acc) ==
    IF s = <<>> THEN Append(acc, cur)
    ELSE IF Head(s) = "/" THEN SplitPath(Tail(s), <<>>, Append(acc, cur))
    ELSE SplitPath(Tail(s), Append(cur, Head(s)), acc)

RECURSIVE LeadingSlashes(_)
LeadingSlashes(s) ==
    IF s # <<>> /\ Head(s) = "/" THEN 1 + LeadingSlashes(Tail(s)) ELSE 0

\* Path(s) on a POSIX system: the root, and the components that are neither
\* empty nor ".".
PathOf(s) ==
    [root |-> CASE LeadingSlashes(s) = 0 -> <<>>
                [] LeadingSlashes(s) = 2 -> <<"/", "/">>
                [] OTHER -> <<"/">>,
     parts |-> SelectSeq(SplitPath(s, <<>>, <<>>),
                         LAMBDA c : c # <<>> /\ c # <<".">>)]

RECURSIVE JoinParts(_)
JoinParts(parts) ==
    IF parts = <<>> THEN <<>>
    ELSE IF Len(parts) = 1 THEN parts[1]
    ELSE parts[1] \o <<"/">> \o JoinParts(Tail(parts))

\* str(path)
PathStr(p) ==
    IF p.root = <<>> /\ p.parts = <<>> THEN <<".">>
    ELSE p.root \o JoinParts(p.parts)

\* Path.cwd(), the default of --dir: an absolute path of a directory that
\* exists.
Cwd == PathOf(<<"/", "w", "o", "r", "k">>)

NoArgs == [command |-> None]

UsageError == [command |-> <<"error">>]

StartsWithDash(tok) == tok # <<>> /\ Head(tok) = "-"

IsDirOption(tok) == tok \in {T_d, T_dir}

\* The `download` subparser over the tokens after the subcommand: -d/--dir
\* takes the next token as its value, any other token is a positional.
RECURSIVE ScanDownload(_, _, _)
ScanDownload(rest, positionals, dir) ==
    IF rest = <<>>
    THEN [ok |-> TRUE, positionals |-> positionals, dir |-> dir]
    ELSE IF IsDirOption(Head(rest))
    THEN IF Len(rest) >= 2 /\ ~StartsWithDash(rest[2])
         THEN ScanDownload(SubSeq(rest, 3, Len(rest)), positionals, PathOf(rest[2]))
         ELSE [ok |-> FALSE, positionals |-> positionals, dir |-> dir]
    ELSE IF StartsWithDash(Head(rest))
    THEN [ok |-> FALSE, positionals |-> positionals, dir |-> dir]
    ELSE ScanDownload(Tail(rest), Append(positionals, Head(rest)), dir)

\* parser.parse_args(argv): the namespace, or UsageError where argparse
\* calls parser.error.
parse_args(av) ==
    IF av = <<>> THEN UsageError
    ELSE IF av[1] = T_list
    THEN IF Len(av) = 1 THEN [command |-> T_list] ELSE UsageError
    ELSE IF av[1] = T_download
    THEN LET scan == ScanDownload(Tail(av), <<>>, Cwd)
         IN  IF scan.ok /\ Len(scan.positionals) = 1
             THEN [command |-> T_download, package |-> scan.positionals[1],
                   dir |-> scan.dir]
             ELSE UsageError
    ELSE UsageError

UsageText == "usage: pip_module_manager.py [-h] {list,download} ..."

-----------------------------------------------------------------------------
(* The download invoker's collaborators: the file system and pip.          *)

\* What the destination path holds: nothing yet, a directory, a regular
\* file, or nothing that this process may create (a parent that is a file
\* or is not writable).
FsKinds == {"absent", "dir", "file", "blocked"}

\* output_dir.mkdir(parents=True, exist_ok=True): the kind afterwards and the
\* error raised, "" for none.
Mkdir_Skip(kind) == [kind |-> kind, error |-> ""]

Mkdir(kind) ==
    CASE kind = "absent" -> [kind |-> "dir", error |-> ""]
      [] kind = "dir" -> [kind |-> "dir", error |-> ""]
      [] kind = "file" -> [kind |-> "file", error |-> "FileExistsError"]
      [] kind = "blocked" -> [kind |-> "blocked", error |-> "PermissionError"]

SysExecutable == <<"p", "y", "t", "h", "o", "n">>

\* cmd = [sys.executable, "-m", "pip", "download", package, "--dest", str(output_dir)]
PipCommand_NoDest(package, output_dir) ==
    <<SysExecutable, <<"-", "m">>, <<"p", "i", "p">>, T_download, package,
      T_dest, PathStr(Cwd)>>

PipCommand(package, output_dir) ==
    <<SysExecutable, <<"-", "m">>, <<"p", "i", "p">>, T_download, package,
      T_dest, PathStr(output_dir)>>

\* What a pip subprocess can return: an exit code and its captured streams.
ExitCodes == {0, 1, 2, 255}
PipStdouts == {"", "Saved requests-2.31.0-py3-none-any.whl\n"}
PipStderrs == {"", "ERROR: No matching distribution found\n"}

NoResult == [returncode |-> -1]

NoExc == [type |-> "none"]

\* raise SystemExit(exc.returncode)
DownloadFailure_One(returncode) == [type |-> "SystemExit", code |-> 1]

DownloadFailure(returncode) == [type |-> "SystemExit", code |-> returncode]

\* The bare `raise` of main re-raises the exception it caught.
Reraise_One(e) == [type |-> "SystemExit", code |-> 1]

Reraise(e) == e

\* f"pip exited with status {exc.code}"
ContextMessage(code) == "pip exited with status " \o IntStr(code)

\* The status the interpreter hands to exit() for SystemExit(code), of which
\* the parent sees the low eight bits.
SystemExitStatus(code) == code % 256

\* An error of mkdir is raised as it is: nothing in download_package
\* catches it.
MkdirRaises_SystemExit(error) == [type |-> "SystemExit", code |-> 1]

MkdirRaises(error) == [type |-> error]

\* Lines 92-99: what download_package prints for a finished subprocess.
ReportWrites_Both(res) ==
    IF res.returncode = 0 THEN <<WriteLine("stdout", res.stdout)>>
    ELSE <<WriteLine("stdout", res.stdout), WriteLine("stderr", res.stderr)>>

ReportWrites(res) ==
    IF res.returncode = 0 THEN <<WriteLine("stdout", res.stdout)>>
    ELSE <<WriteLine("stderr", res.stderr)>>

-----------------------------------------------------------------------------
(* The run.                                                                *)

\* argv is any command line of at most MaxArgs tokens.  The destination path
\* matters to a `download` command line only, and holds any kind of file,
\* except that the default destination, the working directory, exists.
Init ==
    /\ argv \in Argvs
    /\ destKind \in
         (IF argv = <<>> \/ argv[1] # T_download THEN {"absent"}
          ELSE IF parse_args(argv).command = T_download
                    /\ parse_args(argv).dir = Cwd
          THEN {"dir"} ELSE FsKinds)
    /\ pc = "start"
    /\ args = NoArgs
    /\ registry = <<>>
    /\ packages = <<>>
    /\ result = NoResult
    /\ exc = NoExc
    /\ trace = <<>>
    /\ exitStatus = -1

\* main, line 155.  parse_arguments is called outside the try: where argparse
\* finds the command line wrong it prints the usage to stderr and raises
\* SystemExit(2), which leaves main uncaught.
ParseArguments_InTry ==
    /\ pc = "start"
    /\ IF parse_args(argv).command = UsageError.command
       THEN /\ trace' = Append(trace, WriteLine("stderr", UsageText))
            /\ exc' = [type |-> "SystemExit", code |-> 2]
            /\ pc' = "unwind"
            /\ args' = args
       ELSE /\ args' = parse_args(argv)
            /\ pc' = "dispatch"
            /\ UNCHANGED <<trace, exc>>
    /\ UNCHANGED <<argv, destKind, registry, packages, result, exitStatus>>

ParseArguments ==
    /\ pc = "start"
    /\ IF parse_args(argv).command = UsageError.command
       THEN /\ trace' = Append(trace, WriteLine("stderr", UsageText))
            /\ exc' = [type |-> "SystemExit", code |-> 2]
            /\ pc' = "exiting"
            /\ args' = args
       ELSE /\ args' = parse_args(argv)
            /\ pc' = "dispatch"
            /\ UNCHANGED <<trace, exc>>
    /\ UNCHANGED <<argv, destKind, registry, packages, result, exitStatus>>

\* list_installed_packages, lines 67-73, with the get_installed_packages it
\* iterates: one line per package returned.
ListInstalledPackages ==
    /\ pc = "dispatch"
    /\ args.command = T_list
    /\ \E dists \in RecordSeqs :
         /\ registry' = dists
         /\ packages' = get_installed_packages(dists)
         /\ trace' = trace \o
                [i \in 1..Len(get_installed_packages(dists)) |->
                   WriteLine("stdout", FormatLine(get_installed_packages(dists)[i]))]
    /\ pc' = "return"
    /\ UNCHANGED <<argv, destKind, args, result, exc, exitStatus>>

\* importlib_metadata.distributions() fails: the error leaves
\* get_installed_packages, which catches nothing.
RegistryUnreadable ==
    /\ pc = "dispatch"
    /\ args.command = T_list
    /\ exc' = [type |-> "OSError"]
    /\ pc' = "unwind"
    /\ UNCHANGED <<argv, destKind, args, registry, packages, result, trace,
                   exitStatus>>

\* download_package, line 90.
DownloadMkdir ==
    /\ pc = "dispatch"
    /\ args.command = T_download
    /\ destKind' = Mkdir(destKind).kind
    /\ trace' = Append(trace, [kind |-> "mkdir", path |-> PathStr(args.dir),
                               before |-> destKind,
                               error |-> Mkdir(destKind).error])
    /\ IF Mkdir(destKind).error = ""
       THEN pc' = "run" /\ exc' = exc
       ELSE pc' = "unwind" /\ exc' = MkdirRaises(Mkdir(destKind).error)
    /\ UNCHANGED <<argv, args, registry, packages, result, exitStatus>>

\* download_package, lines 91-93: the subprocess runs to its end and its exit
\* code and streams are captured.
DownloadRun ==
    /\ pc = "run"
    /\ \E rc \in ExitCodes, out \in PipStdouts, err \in PipStderrs :
         result' = [returncode |-> rc, stdout |-> out, stderr |-> err]
    /\ trace' = Append(trace, [kind |-> "exec",
                               cmd |-> PipCommand(args.package, args.dir),
                               destKind |-> destKind])
    /\ pc' = "ran"
    /\ UNCHANGED <<argv, destKind, args, registry, packages, exc, exitStatus>>

\* download_package, lines 94-99: check=True raises CalledProcessError for a
\* nonzero exit code.
DownloadReport ==
    /\ pc = "ran"
    /\ trace' = trace \o ReportWrites(result)
    /\ IF result.returncode = 0
       THEN pc' = "return" /\ exc' = exc
       ELSE pc' = "unwind" /\ exc' = DownloadFailure(result.returncode)
    /\ UNCHANGED <<argv, destKind, args, registry, packages, result, exitStatus>>

\* main, lines 156-161: an exception leaves args.func(args); only SystemExit is
\* caught, reported and raised again.
MainExcept ==
    /\ pc = "unwind"
    /\ IF exc.type = "SystemExit"
       THEN /\ trace' = Append(trace, WriteLine("stderr", ContextMessage(exc.code)))
            /\ exc' = Reraise(exc)
       ELSE UNCHANGED <<trace, exc>>
    /\ pc' = "exiting"
    /\ UNCHANGED <<argv, destKind, args, registry, packages, result, exitStatus>>

\* Lines 164-165: main returns, or an exception leaves it.  SystemExit sets the
\* exit status; any other exception is printed as a traceback and the status
\* is 1.
Terminate ==
    /\ pc \in {"return", "exiting"}
    /\ IF pc = "return"
       THEN exitStatus' = 0 /\ trace' = trace
       ELSE IF exc.type = "SystemExit"
       THEN exitStatus' = SystemExitStatus(exc.code) /\ trace' = trace
       ELSE /\ exitStatus' = 1
            /\ trace' = Append(trace,
                 WriteLine("stderr", "Traceback (most recent call last):\n" \o exc.type))
    /\ pc' = "exited"
    /\ UNCHANGED <<argv, destKind, args, registry, packages, result, exc>>

Next ==
    \/ ParseArguments
    \/ ListInstalledPackages
    \/ RegistryUnreadable
    \/ DownloadMkdir
    \/ DownloadRun
    \/ DownloadReport
    \/ MainExcept
    \/ Terminate

Spec == Init /\ [][Next]_vars

-----------------------------------------------------------------------------
(* What a run shows.                                                       *)

Writes(stream) ==
    SelectSeq(trace, LAMBDA e : e.kind = "write" /\ e.stream = stream)

Execs == SelectSeq(trace, LAMBDA e : e.kind = "exec")

Mkdirs == SelectSeq(trace, LAMBDA e : e.kind = "mkdir")

PipRan == result # NoResult

ListSucceeded ==
    /\ args.command = T_list
    /\ pc = "return" \/ (pc = "exited" /\ exitStatus = 0)

\* The records of the registry that have a name and a version, as pairs.
RECURSIVE CompletePairs(_)
CompletePairs(dists) ==
    IF dists = <<>> THEN <<>>
    ELSE (IF /\ Head(dists).name \notin {None, <<>>}
             /\ Head(dists).version \notin {None, <<>>}
          THEN <<<<Head(dists).name, Head(dists).version>>>>
          ELSE <<>>) \o CompletePairs(Tail(dists))

\* The line a record would print as, were it printed.
Shown(v) == IF v = None THEN "None" ELSE Join(v)

IsContextMessage(e) ==
    /\ e.kind = "write"
    /\ e.stream = "stderr"
    /\ \E c \in ExitCodes \cup {2} :
         e.text = "pip exited with status " \o IntStr(c) \o "\n"

-----------------------------------------------------------------------------
(* The claims.                                                             *)

\* C1: in a `download` run in which pip was invoked and returned exit code c,
\* the process exit status is 0 if c = 0 and c otherwise; on the way the code
\* is carried unchanged by the SystemExit download_package raises and main
\* re-raises.
C1_ExitCodeCarried ==
    (args.command = T_download /\ PipRan) =>
        /\ pc \in {"unwind", "exiting"} => exc.code = result.returncode
        /\ pc = "exited" =>
             /\ result.returncode = 0 => exitStatus = 0
             /\ result.returncode # 0 => exitStatus = result.returncode

C1_Witness ==
    /\ pc = "exited"
    /\ PipRan
    /\ result.returncode = 255
    /\ exitStatus = 255

\* C2: the lines `list` prints are in ascending order of lowercased name, each
\* is the name, `==` and the version of a record of the registry, there is one
\* line per package and nothing else is printed.
C2_ListSortedAndFormatted ==
    ListSucceeded =>
        /\ Len(Writes("stdout")) = Len(packages)
        /\ Len(Writes("stdout")) = Len(CompletePairs(registry))
        /\ Len(trace) = Len(Writes("stdout"))
        /\ \A i \in 1..Len(packages) :
             /\ Writes("stdout")[i].text =
                  Join(packages[i][1]) \o "==" \o Join(packages[i][2]) \o "\n"
             /\ \E j \in 1..Len(registry) :
                  /\ registry[j].name = packages[i][1]
                  /\ registry[j].version = packages[i][2]
        /\ \A i, j \in 1..Len(packages) :
             i < j => ~StrLess(Lower(packages[j][1]), Lower(packages[i][1]))

C2_Witness ==
    /\ pc = "exited"
    /\ ListSucceeded
    /\ Len(registry) = 3
    /\ registry[1].name = <<"B">>
    /\ registry[2].name = <<"a", "b">>
    /\ registry[3].name = <<"a">>
    /\ Len(Writes("stdout")) = 3
    /\ Writes("stdout")[1].text = "a==1\n"
    /\ Writes("stdout")[2].text = "ab==1\n"
    /\ Writes("stdout")[3].text = "B==1\n"

\* C3: a record whose name or version is missing is skipped without an error
\* and never printed, so `list` prints at most as many lines as there are
\* records.
C3_MissingFieldSkipped ==
    (args.command = T_list /\ registry # <<>>) =>
        /\ exc = NoExc
        /\ Writes("stderr") = <<>>
        /\ pc = "exited" => exitStatus = 0
        /\ Len(Writes("stdout")) <= Len(registry)
        /\ \A j \in 1..Len(registry) :
             (registry[j].name = None \/ registry[j].version = None) =>
                 \A i \in 1..Len(Writes("stdout")) :
                     Writes("stdout")[i].text #
                         Shown(registry[j].name) \o "==" \o
                         Shown(registry[j].version) \o "\n"
        /\ \A i \in 1..Len(packages) :
             packages[i][1] # None /\ packages[i][2] # None

C3_Witness ==
    /\ pc = "exited"
    /\ args.command = T_list
    /\ Len(registry) = 3
    /\ registry[1].version = None
    /\ registry[2].name = None
    /\ registry[3].name = <<"a">>
    /\ registry[3].version = <<"1">>
    /\ Len(Writes("stdout")) = 1
    /\ exitStatus = 0

\* C4: in a `download` run the destination directory is ensured to exist
\* before pip is invoked: mkdir creates it where absent and raises nothing
\* where it is already a directory, and pip is never invoked while the
\* destination is not a directory.
C4_DirEnsuredBeforeInvoke ==
    /\ \A i \in 1..Len(trace) :
         trace[i].kind = "exec" =>
             /\ trace[i].destKind = "dir"
             /\ \E j \in 1..(i - 1) :
                  trace[j].kind = "mkdir" /\ trace[j].error = ""
    /\ \A i \in 1..Len(trace) :
         (trace[i].kind = "mkdir" /\ trace[i].before \in {"absent", "dir"}) =>
             trace[i].error = ""
    /\ pc \in {"run", "ran"} => destKind = "dir"
    /\ (args.command = T_download /\ pc # "dispatch") => Len(Mkdirs) = 1

C4_Witness ==
    /\ pc = "ran"
    /\ Len(trace) = 2
    /\ trace[1].kind = "mkdir"
    /\ trace[1].before = "absent"
    /\ trace[2].kind = "exec"
    /\ destKind = "dir"

\* The command lines C5 is about: no subcommand anywhere, or `download` with
\* no positional after it.
NoSubcommand == \A i \in 1..Len(argv) : argv[i] \notin {T_list, T_download}

DownloadWithoutPackage ==
    /\ argv # <<>>
    /\ argv[1] = T_download
    /\ ScanDownload(Tail(argv), <<>>, Cwd).positionals = <<>>

C7_FailureOrder ==
    /\ (PipRan /\ result.returncode # 0) =>
         /\ pc = "unwind" =>
              /\ Writes("stderr") = <<WriteLine("stderr", result.stderr)>>
              /\ exitStatus = -1
         /\ pc \in {"exiting", "exited"} =>
              Writes("stderr") =
                  <<WriteLine("stderr", result.stderr),
                    [kind |-> "write", stream |-> "stderr",
                     text |-> "pip exited with status "
                                \o IntStr(result.returncode) \o "\n"]>>
         /\ pc = "exiting" => exitStatus = -1
         /\ pc = "exited" => exitStatus = result.returncode
    /\ (\E i \in 1..Len(trace) : IsContextMessage(trace[i])) =>
         (PipRan /\ result.returncode # 0)

C7_Witness ==
    /\ pc = "exited"
    /\ PipRan
    /\ result.returncode = 255
    /\ Len(Writes("stderr")) = 2
    /\ Writes("stderr")[2].text = "pip exited with status 255\n"
    /\ exitStatus = 255

\* The call of download_package has ended, by a return or by an exception.
DownloadEnded ==
    /\ args.command = T_download
    /\ pc \in {"return", "unwind", "exiting", "exited"}

\* C8, as claimed: every call of download returns normally or fails with a
\* SystemExit carrying pip's exit code, a failure to create the destination
\* directory included.
C8_OnlyDownloadFailure ==
    DownloadEnded =>
        \/ exc = NoExc
        \/ exc.type = "SystemExit" /\ PipRan /\ exc.code = result.returncode

\* C8, amended: a call of download returns normally, or fails with a
\* SystemExit carrying pip's nonzero exit code, or, where the destination
\* directory cannot be created, fails with the error mkdir raised, before pip
\* is invoked: no message naming a code is printed and the exit status is 1.
C8_DownloadOutcomes ==
    DownloadEnded =>
        \/ exc = NoExc /\ PipRan /\ result.returncode = 0
        \/ /\ exc.type = "SystemExit"
           /\ PipRan
           /\ result.returncode # 0
           /\ exc.code = result.returncode
        \/ /\ exc.type \in {"FileExistsError", "PermissionError"}
           /\ Len(Mkdirs) = 1
           /\ Mkdirs[1].before \in {"file", "blocked"}
           /\ Mkdirs[1].error = exc.type
           /\ ~PipRan
           /\ Execs = <<>>
           /\ \A i \in 1..Len(trace) : ~IsContextMessage(trace[i])
           /\ pc = "exited" => exitStatus = 1

C8_Witness ==
    /\ pc = "exited"
    /\ args.command = T_download
    /\ exc.type = "FileExistsError"
    /\ destKind = "file"
    /\ exitStatus = 1

\* The set of the elements of a sequence.
Range(f) == {f[i] : i \in 1..Len(f)}

\* C9: packages whose names are equal after lowercasing are listed in the
\* order the registry enumerated them, and every record with a non-empty name
\* and a non-empty version is listed exactly once.
C9_StableAndComplete ==
    ListSucceeded =>
        /\ Len(packages) = Len(CompletePairs(registry))
        /\ Len(Writes("stdout")) = Len(packages)
        /\ \A i \in 1..Len(packages) :
             Writes("stdout")[i].text =
                 Join(packages[i][1]) \o "==" \o Join(packages[i][2]) \o "\n"
        /\ \A k \in {Lower(n) : n \in Names} :
             SelectSeq(packages, LAMBDA q : Lower(q[1]) = k) =
                 SelectSeq(CompletePairs(registry), LAMBDA q : Lower(q[1]) = k)

C9_Witness ==
    /\ pc = "exited"
    /\ ListSucceeded
    /\ Len(registry) = 3
    /\ registry[1].name = <<"B">> /\ registry[1].version = <<"1">>
    /\ registry[2].name = <<"a">> /\ registry[2].version = <<"1">>
    /\ registry[3].name = <<"b">> /\ registry[3].version = <<"1">>
    /\ Len(Writes("stdout")) = 3
    /\ Writes("stdout")[2].text = "B==1\n"
    /\ Writes("stdout")[3].text = "b==1\n"

\* C10: pip is started at most once in an invocation: exactly once in a
\* `download` run whose mkdir succeeded, with the arguments
\* `download <package> --dest <directory>` of the parsed arguments, and never
\* in a `list` run, after a failed mkdir, or again after a failure.
C10_AtMostOneInvocation ==
    /\ Len(Execs) <= 1
    /\ args.command # T_download => Execs = <<>>
    /\ (Mkdirs # <<>> /\ Mkdirs[1].error # "") => Execs = <<>>
    /\ (Mkdirs # <<>> /\ Mkdirs[1].error = "" /\ pc # "run") =>
         /\ Len(Execs) = 1
         /\ SubSeq(Execs[1].cmd, 4, Len(Execs[1].cmd)) =
                <<T_download, args.package, T_dest, PathStr(args.dir)>>
         /\ args.package \in Range(argv)
         /\ \/ args.dir = Cwd
            \/ \E t \in Range(argv) : args.dir = PathOf(t)

C10_Witness ==
    /\ pc = "exited"
    /\ argv = <<T_download, T_d, T_out, T_requests>>
    /\ result.returncode = 2
    /\ Len(Execs) = 1
    /\ Execs[1].cmd[5] = T_requests
    /\ Execs[1].cmd[7] = <<"o", "u", "t">>

====
